---------------------------- MODULE Spec2Model ----------------------------
(***************************************************************************)
(* StaticResCache (src/main.js): a userscript that wraps XMLHttpRequest    *)
(* and fetch, serves static resources from an IndexedDB object store and   *)
(* refreshes stale entries in the background with conditional requests.    *)
(*                                                                         *)
(* Strings the code inspects (URLs, methods, header names) are sequences   *)
(* of one-character strings, so that toLowerCase / toUpperCase / endsWith  *)
(* are computed.  An ETag value is a one-token sequence.  Byte buffers are  *)
(* sequences of byte values.                                               *)
(***************************************************************************)
EXTENDS Integers, Sequences, FiniteSets, TLC

(***************************************************************************)
(* Bounds of the model.                                                    *)
(***************************************************************************)
MaxRequests == 2
MaxTicks == 2
MaxVer == 2
MaxClearsQueued == 1

(***************************************************************************)
(* Program constants.                                                      *)
(***************************************************************************)
CACHE_MAX_AGE == 24 * 60 * 60 * 1000

STATIC_EXTENSIONS ==
    { <<".", "j", "s">>, <<".", "c", "s", "s">>, <<".", "p", "n", "g">>,
      <<".", "j", "p", "g">>, <<".", "j", "p", "e", "g">>,
      <<".", "g", "i", "f">>, <<".", "s", "v", "g">>,
      <<".", "w", "o", "f", "f">>, <<".", "w", "o", "f", "f", "2">>,
      <<".", "t", "t", "f">> }

(***************************************************************************)
(* String primitives of the host language.                                 *)
(***************************************************************************)
UpperAlpha ==
    <<"A", "B", "C", "D", "E", "F", "G", "H", "I", "J", "K", "L", "M",
      "N", "O", "P", "Q", "R", "S", "T", "U", "V", "W", "X", "Y", "Z">>

LowerAlpha ==
    <<"a", "b", "c", "d", "e", "f", "g", "h", "i", "j", "k", "l", "m",
      "n", "o", "p", "q", "r", "s", "t", "u", "v", "w", "x", "y", "z">>

LowerChar(c) ==
    IF \E i \in 1..26 : UpperAlpha[i] = c
    THEN LowerAlpha[CHOOSE i \in 1..26 : UpperAlpha[i] = c]
    ELSE c

UpperChar(c) ==
    IF \E i \in 1..26 : LowerAlpha[i] = c
    THEN UpperAlpha[CHOOSE i \in 1..26 : LowerAlpha[i] = c]
    ELSE c

toLowerCase(s) == [i \in 1..Len(s) |-> LowerChar(s[i])]

toUpperCase(s) == [i \in 1..Len(s) |-> UpperChar(s[i])]

endsWith(s, ext) ==
    /\ Len(s) >= Len(ext)
    /\ SubSeq(s, Len(s) - Len(ext) + 1, Len(s)) = ext

\* JavaScript truthiness of a string-or-null value.  null is modelled as the
\* empty sequence: every test the code makes on a URL is `!url`, which null
\* and "" both satisfy.
Truthy(s) == s # <<>>

NullUrl == <<>>

(***************************************************************************)
(* The values requests are made of.                                        *)
(***************************************************************************)
\* https://example.com/app.js
AppJs == <<"/", "a", "p", "p", ".", "j", "s">>
\* https://example.com/LOGO.PNG
LogoPng == <<"/", "L", "O", "G", "O", ".", "P", "N", "G">>
\* https://example.com/api/data
ApiData == <<"/", "a", "p", "i", "/", "d", "a", "t", "a">>

GET == <<"G", "E", "T">>
GetLower == <<"g", "e", "t">>
POST == <<"P", "O", "S", "T">>

\* The first argument of fetch: a string, a URL object, a Request object (which
\* carries its own method) or a value of another type.
StringResource(url) == [type |-> "string", href |-> url, method |-> GET]
UrlResource(url) == [type |-> "URL", href |-> url, method |-> GET]
RequestResource(url, method) == [type |-> "Request", href |-> url, method |-> method]
OtherResource == [type |-> "other", href |-> NullUrl, method |-> GET]

\* The second argument of fetch: absent, an object without a method, or an
\* object with one.
NoInit == [present |-> FALSE, hasMethod |-> FALSE, method |-> GET]
EmptyInit == [present |-> TRUE, hasMethod |-> FALSE, method |-> GET]
MethodInit(method) == [present |-> TRUE, hasMethod |-> TRUE, method |-> method]

\* The fetch calls the page makes.
FetchCalls ==
    { [resource |-> StringResource(AppJs), init |-> NoInit],
      [resource |-> StringResource(AppJs), init |-> MethodInit(GET)],
      [resource |-> StringResource(AppJs), init |-> MethodInit(GetLower)],
      [resource |-> StringResource(AppJs), init |-> MethodInit(POST)],
      [resource |-> StringResource(ApiData), init |-> NoInit],
      [resource |-> UrlResource(LogoPng), init |-> EmptyInit],
      [resource |-> RequestResource(AppJs, GET), init |-> NoInit],
      [resource |-> RequestResource(AppJs, POST), init |-> NoInit],
      [resource |-> OtherResource, init |-> NoInit] }

\* The xhr.open(method, url) calls the page makes.
XhrCalls ==
    { [method |-> GET, url |-> AppJs],
      [method |-> GetLower, url |-> AppJs],
      [method |-> POST, url |-> AppJs],
      [method |-> GET, url |-> ApiData] }

\* The src / href values the DOM scan finds.
WarmUrls == {AppJs, LogoPng, ApiData}

\* The method of the HTTP request a fetch(resource, init) call stands for:
\* init.method, else the Request's method, else GET.
EffectiveMethod(resource, init) ==
    IF init.present /\ init.hasMethod THEN init.method ELSE resource.method

(***************************************************************************)
(* Origin content: version v of a resource has body Body(v), validator     *)
(* EtagOf(v).                                                              *)
(***************************************************************************)
\* JavaScript null where a string is expected (an absent etag).  Like NullUrl it
\* is the empty sequence: the code only tests such values for truthiness, and
\* gmFetch never yields an empty header value.
Null == <<>>

EtagNames == <<"\"v1\"", "\"v2\"", "\"v3\"", "\"v4\"">>

\* the validator of version v: an opaque token
EtagOf(v) == <<EtagNames[v]>>

\* a digit followed by a byte that is not valid UTF-8
Body(v) == <<48 + v, 255>>

\* the body of an error page
ErrBody == <<52, 48, 52>>

\* TextDecoder.decode on buffers made of ASCII bytes and lone invalid bytes:
\* an invalid byte decodes to U+FFFD.
TextDecode(buffer) ==
    [i \in 1..Len(buffer) |-> IF buffer[i] < 128 THEN buffer[i] ELSE 65533]

HdrETag == <<"E", "T", "a", "g">>
HdrEtagLower == <<"e", "t", "a", "g">>
HdrContentType == <<"C", "o", "n", "t", "e", "n", "t", "-", "T", "y", "p", "e">>

ColonSpace == <<":", " ">>

\* One line of responseHeaders, "name: value".
HeaderLine(name, value) == name \o ColonSpace \o value

\* The responseHeaders an origin may send with a body of version v whose
\* validator is etag (Null: the origin sends none); split at "\r\n", the last
\* line empty.
ResponseHeaders(etag) ==
    IF etag = Null
    THEN { << HeaderLine(HdrContentType, <<"t", "e", "x", "t">>), <<>> >> }
    ELSE { << HeaderLine(HdrContentType, <<"t", "e", "x", "t">>),
              HeaderLine(HdrETag, etag), <<>> >>,
           << HeaderLine(HdrEtagLower, etag), <<>> >> }

\* What GM_xmlhttpRequest reports for a GET of a resource that the origin
\* answers from version v, sent with If-None-Match inm (Null: unconditional):
\* an error, or a
\* load with status, responseHeaders and response.  `sent` records the
\* validator the origin put in the response.  An origin answers 304 only to a
\* conditional request whose validator is current.
GmOutcomes(v, inm) ==
    { [type |-> "error", status |-> 0, responseHeaders |-> <<>>,
       response |-> <<>>, sent |-> Null] }
      \cup UNION { { [type |-> "load", status |-> 200, responseHeaders |-> h,
                      response |-> Body(v), sent |-> e] :
                        h \in ResponseHeaders(e) } : e \in {Null, EtagOf(v)} }
      \cup { [type |-> "load", status |-> 204, responseHeaders |-> h,
              response |-> <<>>, sent |-> Null] : h \in ResponseHeaders(Null) }
      \cup { [type |-> "load", status |-> 404, responseHeaders |-> h,
              response |-> ErrBody, sent |-> Null] : h \in ResponseHeaders(Null) }
      \cup (IF inm # Null /\ inm = EtagOf(v)
            THEN { [type |-> "load", status |-> 304, responseHeaders |-> h,
                    response |-> <<>>, sent |-> EtagOf(v)] :
                      h \in ResponseHeaders(EtagOf(v)) }
            ELSE {})

(***************************************************************************)
(* Resource Classifier.                                                    *)
(***************************************************************************)
isStaticResource(url) ==
    IF ~Truthy(url) THEN FALSE
    ELSE \E ext \in STATIC_EXTENSIONS : endsWith(toLowerCase(url), ext)

getUrlString(resource) ==
    IF resource.type = "string" THEN resource.href
    ELSE IF resource.type = "URL" THEN resource.href
    ELSE IF resource.type = "Request" THEN resource.href
    ELSE NullUrl

\* The condition of xhr.send: this._method?.toUpperCase() === 'GET' &&
\* isStaticResource(this._url).
XhrEligible(method, url) ==
    /\ toUpperCase(method) = GET
    /\ isStaticResource(url)

\* The condition of the fetch wrapper: (!init || init.method === undefined ||
\* init.method === 'GET') && isStaticResource(url).
FetchEligible(init, url) ==
    /\ \/ ~init.present
       \/ ~init.hasMethod
       \/ init.method = GET
    /\ isStaticResource(url)

(***************************************************************************)
(* gmFetch: the response object built in onload.                           *)
(***************************************************************************)
\* line.split(': ')
RECURSIVE split(_)
split(line) ==
    LET At == { i \in 1..(Len(line) - 1) : line[i] = ":" /\ line[i + 1] = " " }
    IN  IF At = {} THEN << line >>
        ELSE LET i == CHOOSE j \in At : \A k \in At : j <= k
             IN  << SubSeq(line, 1, i - 1) >> \o split(SubSeq(line, i + 2, Len(line)))

\* The reduce over responseHeaders.split('\r\n'): the [name, value] pairs kept,
\* a later line replacing an earlier one of the same name.
RECURSIVE parseHeaders(_)
parseHeaders(lines) ==
    IF lines = <<>> THEN <<>>
    ELSE LET rest == parseHeaders(SubSeq(lines, 1, Len(lines) - 1))
             parts == split(lines[Len(lines)])
             key == parts[1]
             value == IF Len(parts) >= 2 THEN parts[2] ELSE <<>>
         IN  IF Truthy(key) /\ Truthy(value)
             THEN SelectSeq(rest, LAMBDA kv : kv[1] # key) \o << <<key, value>> >>
             ELSE rest

\* Headers.get(name): names compare case-insensitively; null when absent.
headersGet(headers, name) ==
    LET hit == SelectSeq(headers, LAMBDA kv : toLowerCase(kv[1]) = toLowerCase(name))
    IN  IF hit = <<>> THEN Null ELSE hit[1][2]

\* gmOk without its upper limit.
MutGmOk(status) == status >= 200

gmOk(status) == status >= 200 /\ status < 300

\* The method of the request gmFetch(url, options) sends:
\* options.method || 'GET'.  options is init in the fetch adapter, and has no
\* method in the warm-up and in the revalidation.
gmMethod(init) ==
    IF init.present /\ init.hasMethod /\ Truthy(init.method) THEN init.method ELSE GET

\* What the adapters keep of a resolved gmFetch: status, ok, the bytes of
\* arrayBuffer(), headers.get('ETag'), and the validator the
\* origin sent.
gmResponse(raw) ==
    [ status |-> raw.status,
      ok     |-> gmOk(raw.status),
      body   |-> raw.response,
      etag   |-> headersGet(parseHeaders(raw.responseHeaders), HdrETag),
      sent   |-> raw.sent ]

NoResp == [status |-> 0, ok |-> FALSE, body |-> <<>>, etag |-> Null, sent |-> Null]

(***************************************************************************)
(* State.                                                                  *)
(***************************************************************************)
VARIABLES
    store,   \* the object store 'resources': url -> entry (keyPath 'url')
    idb,     \* IndexedDB requests not yet completed, in the order issued
    req,     \* the requests and warm-up calls in progress, and their revalidations
    last,    \* the request or warm-up call that returned last, as it returned
    now,     \* Date.now()
    ticks,   \* how often the clock has advanced
    ver      \* the origin's current version of the resources

vars == <<store, idb, req, last, now, ticks, ver>>

environment == <<now, ticks, ver>>

Ids == 1..MaxRequests

NoRev ==
    [pc |-> "none", inm |-> Null, resp |-> NoResp, pending |-> <<>>, out |-> "none"]

NoResult == [via |-> "none", status |-> 0, bytes |-> <<>>]

NoArgs == [resource |-> OtherResource, init |-> NoInit]

IdleReq ==
    [ kind      |-> "none",    \* xhr | fetch | warm
      pc        |-> "idle",
      url       |-> NullUrl,   \* this._url, or getUrlString(resource)
      method    |-> GET,       \* this._method, or the fetch call's method
      args      |-> NoArgs,    \* the arguments of the fetch call
      elig      |-> FALSE,     \* the adapter took the cache path
      cached    |-> <<>>,      \* what getCached resolved with, if an entry
      getFailed |-> FALSE,     \* getCached rejected
      resp      |-> NoResp,    \* what gmFetch resolved with
      pending   |-> <<>>,      \* the entry handed to store.put
      fail      |-> "none",    \* how the cold fetch failed
      result    |-> NoResult,  \* what the caller received
      realArgs  |-> <<>>,      \* the arguments the real fetch was called with
      gm        |-> 0,         \* gmFetch calls made for this request
      gmAt      |-> 0,         \* the origin's version when its outstanding
                               \* gmFetch request was sent
      real      |-> 0,         \* calls of the real send / real fetch
      events    |-> "none",    \* none | scheduled | dispatched
      rev       |-> NoRev ]    \* its updateCacheInBackground call

\* The entry a previous page load may have left for app.js.
OldEntry(etag) ==
    [data |-> [buffer |-> Body(1), text |-> TextDecode(Body(1))],
     etag |-> etag, timestamp |-> 0]

Init ==
    /\ store \in { <<>> } \cup { (AppJs :> OldEntry(e)) : e \in {Null, EtagOf(1)} }
    /\ idb = <<>>
    /\ req = [t \in Ids |-> IdleReq]
    /\ last = IdleReq
    /\ now = 0
    /\ ticks = 0
    /\ ver = 1

(***************************************************************************)
(* Cache Store.                                                            *)
(***************************************************************************)
\* request.result of store.get(url): <<entry>>, or <<>> for undefined
getCached(url) == IF url \in DOMAIN store THEN << store[url] >> ELSE <<>>

\* the object saveToCache hands to store.put; timestamp is Date.now() at the call
cacheEntry(data, etag) == [data |-> data, etag |-> etag, timestamp |-> now]

\* put with the semantics of store.add: an entry whose key exists is refused.
MutPutAdds(url, entry) ==
    IF url \in DOMAIN store THEN store
    ELSE [u \in (DOMAIN store) \cup {url} |-> IF u = url THEN entry ELSE store[u]]

\* store.put: the entry replaces whatever the key url held
put(url, entry) ==
    [u \in (DOMAIN store) \cup {url} |-> IF u = url THEN entry ELSE store[u]]

\* the { buffer, text } pair the adapters build from a response body
readResponseData(buffer) == [buffer |-> buffer, text |-> TextDecode(buffer)]

\* shouldUpdate with >= for >.
MutShouldUpdateAtMaxAge(cached) == now - cached.timestamp >= CACHE_MAX_AGE

shouldUpdate(cached) == now - cached.timestamp > CACHE_MAX_AGE

Enqueue(t, op) == Append(idb, [t |-> t, op |-> op])

AtHead(t, op) == idb # <<>> /\ Head(idb) = [t |-> t, op |-> op]

\* Requests are numbered in the order they are issued.
CanStart(t) ==
    /\ req[t].kind = "none"
    /\ IF t = 1 THEN TRUE ELSE req[t - 1].kind # "none"

RevActive(r) == r.rev.pc \in {"gm", "save"}

\* What stays of a request that has returned: its revalidation, and the events
\* of a cache hit of the XHR adapter.
Residue(r) ==
    [IdleReq EXCEPT !.kind = r.kind, !.pc = "done", !.events = r.events,
                    !.rev = r.rev,
                    !.url = IF RevActive(r) THEN r.url ELSE NullUrl,
                    !.cached = IF RevActive(r) THEN r.cached ELSE <<>>,
                    !.gmAt = IF RevActive(r) THEN r.gmAt ELSE 0]

\* What is remembered of a request that has returned: all but the entry it
\* handed to the store and the body and headers gmFetch gave it.
Snapshot(r) ==
    [r EXCEPT !.pending = <<>>, !.gmAt = 0,
              !.resp = [NoResp EXCEPT !.status = r.resp.status, !.ok = r.resp.ok]]

\* Request t returns as r.
Finish(t, r) ==
    /\ req' = [req EXCEPT ![t] = Residue(r)]
    /\ last' = Snapshot(r)

\* Request t goes on as r, or returns as r.
Step(t, r) ==
    IF r.pc = "done" THEN Finish(t, r)
    ELSE /\ req' = [req EXCEPT ![t] = r]
         /\ last' = last

\* The IndexedDB queue once r has issued the request its new position waits for.
Issue(queue, t, r) ==
    IF r.pc = "get" THEN Append(queue, [t |-> t, op |-> "get"])
    ELSE IF r.pc = "save" THEN Append(queue, [t |-> t, op |-> "put"])
    ELSE queue

(***************************************************************************)
(* Revalidation Engine: updateCacheInBackground(url, cached).              *)
(***************************************************************************)
\* updateCacheInBackground sending a validator of its own when the entry has
\* none.
MutAlwaysConditional(cached) ==
    [NoRev EXCEPT !.pc = "gm",
                  !.inm = IF Truthy(cached.etag) THEN cached.etag ELSE EtagOf(1)]

\* Up to the gmFetch call: the request carries If-None-Match iff cached.etag
\* is truthy.
updateCacheInBackground(cached) ==
    [NoRev EXCEPT !.pc = "gm",
                  !.inm = IF Truthy(cached.etag) THEN cached.etag ELSE Null]

\* A hit: `if (await shouldUpdate(cached)) updateCacheInBackground(url, cached)`.
\* The call is not awaited.
MaybeRevalidate(r, cached) ==
    IF shouldUpdate(cached)
    THEN [r EXCEPT !.cached = << cached >>,
                   !.rev = updateCacheInBackground(cached), !.gm = @ + 1,
                   !.gmAt = ver]
    ELSE [r EXCEPT !.cached = << cached >>]

\* RevalOnResponse putting the entry it was given back as it is on a 304.
MutRevalKeepsTimestamp(rv, cached, resp) ==
    IF resp.status = 304
    THEN [rv EXCEPT !.pc = "save", !.resp = resp, !.pending = << cached >>]
    ELSE IF resp.ok
    THEN [rv EXCEPT !.pc = "save", !.resp = resp,
                    !.pending = << cacheEntry(readResponseData(resp.body), resp.etag) >>]
    ELSE [NoRev EXCEPT !.pc = "done", !.out = "ignored"]

\* RevalOnResponse keeping the old etag when the content has changed.
MutRevalKeepsEtag(rv, cached, resp) ==
    IF resp.status = 304
    THEN [rv EXCEPT !.pc = "save", !.resp = resp,
                    !.pending = << cacheEntry(cached.data, cached.etag) >>]
    ELSE IF resp.ok
    THEN [rv EXCEPT !.pc = "save", !.resp = resp,
                    !.pending = << cacheEntry(readResponseData(resp.body), cached.etag) >>]
    ELSE [NoRev EXCEPT !.pc = "done", !.out = "ignored"]

\* RevalOnResponse reading the body of a 304 like that of a 200, and keeping
\* the etag of the entry.
MutRevalStoresNotModifiedBody(rv, cached, resp) ==
    IF resp.status = 304
    THEN [rv EXCEPT !.pc = "save", !.resp = resp,
                    !.pending = << cacheEntry(readResponseData(resp.body), cached.etag) >>]
    ELSE IF resp.ok
    THEN [rv EXCEPT !.pc = "save", !.resp = resp,
                    !.pending = << cacheEntry(readResponseData(resp.body), resp.etag) >>]
    ELSE [NoRev EXCEPT !.pc = "done", !.out = "ignored"]

\* gmFetch resolved: which entry, if any, goes to saveToCache.
RevalOnResponse(rv, cached, resp) ==
    IF resp.status = 304
    THEN [rv EXCEPT !.pc = "save", !.resp = resp,
                    !.pending = << cacheEntry(cached.data, cached.etag) >>]
    ELSE IF resp.ok
    THEN [rv EXCEPT !.pc = "save", !.resp = resp,
                    !.pending = << cacheEntry(readResponseData(resp.body), resp.etag) >>]
    ELSE [NoRev EXCEPT !.pc = "done", !.out = "ignored"]

\* gmFetch rejected: the catch logs it.
RevalOnError(rv) == [NoRev EXCEPT !.pc = "done", !.out = "neterr"]

\* The revalidation of request r goes on as rv; once it has ended, url and
\* cached are dropped.
RevStep(r, rv) ==
    IF rv.pc = "done" THEN [r EXCEPT !.rev = rv, !.url = NullUrl, !.cached = <<>>]
    ELSE [r EXCEPT !.rev = rv]

\* The origin's versions a response to the outstanding gmFetch request of r can
\* be made of: the origin answers at some instant between the sending of the
\* request and the arrival of the response.
AnswerVersions(r) == r.gmAt..ver

\* r when the response to its gmFetch request has arrived
Answered(r) == [r EXCEPT !.gmAt = 0]

RevalGmDone(t) ==
    /\ req[t].rev.pc = "gm"
    /\ \E v \in AnswerVersions(req[t]) : \E raw \in GmOutcomes(v, req[t].rev.inm) :
         LET rv == IF raw.type = "error"
                   THEN RevalOnError(req[t].rev)
                   ELSE RevalOnResponse(req[t].rev, req[t].cached[1], gmResponse(raw))
         IN  /\ req' = [req EXCEPT ![t] = RevStep(Answered(req[t]), rv)]
             /\ idb' = IF rv.pc = "save" THEN Enqueue(t, "rput") ELSE idb
    /\ UNCHANGED <<store, last, environment>>

\* store.put succeeded: the entry is in the store.
RevalSaved(rv) ==
    [NoRev EXCEPT !.pc = "done", !.out = IF rv.resp.status = 304 THEN "304" ELSE "200"]

\* store.put failed: saveToCache rejects, the catch logs it.
RevalSaveFailed(rv) == [NoRev EXCEPT !.pc = "done", !.out = "puterr"]

RevalSaveDone(t) ==
    /\ req[t].rev.pc = "save"
    /\ AtHead(t, "rput")
    /\ idb' = Tail(idb)
    /\ \/ /\ store' = put(req[t].url, req[t].rev.pending[1])
          /\ req' = [req EXCEPT ![t] = RevStep(req[t], RevalSaved(req[t].rev))]
       \/ /\ store' = store
          /\ req' = [req EXCEPT ![t] = RevStep(req[t], RevalSaveFailed(req[t].rev))]
    /\ UNCHANGED <<last, environment>>

(***************************************************************************)
(* The unintercepted calls.                                                *)
(***************************************************************************)
\* originalSend.apply(this, args)
originalSend(r) == [r EXCEPT !.pc = "real", !.real = @ + 1]

\* originalFetch.apply(this, arguments)
originalFetch(r) ==
    [r EXCEPT !.pc = "real", !.real = @ + 1, !.realArgs = << r.args >>]

\* What the unintercepted call yields: a response of the origin, or a network
\* error (status 0).
RealOutcomes(v) ==
    { [via |-> "real", status |-> 200, bytes |-> Body(v)],
      [via |-> "real", status |-> 404, bytes |-> ErrBody],
      [via |-> "real", status |-> 0, bytes |-> <<>>] }

Returned(r, result) == [r EXCEPT !.pc = "done", !.result = result]

(***************************************************************************)
(* Interception Adapter: XMLHttpRequest.                                   *)
(***************************************************************************)
XhrOpen(t, method, url) ==
    /\ CanStart(t)
    /\ req' = [req EXCEPT ![t] = [IdleReq EXCEPT !.kind = "xhr", !.pc = "opened",
                                                 !.url = url, !.method = method]]
    /\ UNCHANGED <<store, idb, last, environment>>

\* xhr.send, up to its first await.
xhrSend(r) ==
    IF XhrEligible(r.method, r.url)
    THEN [r EXCEPT !.pc = "get", !.elig = TRUE]
    ELSE originalSend(r)

XhrSend(t) ==
    /\ req[t].kind = "xhr"
    /\ req[t].pc = "opened"
    /\ Step(t, xhrSend(req[t]))
    /\ idb' = Issue(idb, t, xhrSend(req[t]))
    /\ UNCHANGED <<store, environment>>

\* xhrHit without its `return`: the real send follows the hit.
MutXhrHit(r, cached) ==
    [MaybeRevalidate(r, cached) EXCEPT
        !.pc = "real",
        !.real = @ + 1,
        !.events = "scheduled",
        !.result = [via |-> "cache", status |-> 200, bytes |-> cached.data.buffer]]

\* getCached resolved with an entry: readyState, status, response and
\* responseText are defined from it, the events are scheduled, send returns.
xhrHit(r, cached) ==
    [MaybeRevalidate(r, cached) EXCEPT
        !.pc = "done",
        !.events = "scheduled",
        !.result = [via |-> "cache", status |-> 200, bytes |-> cached.data.buffer]]

\* getCached resolved with undefined: the real send.
xhrMiss(r) == originalSend(r)

\* getCached rejected: the catch logs it, the real send follows.
xhrGetRejected(r) == originalSend([r EXCEPT !.getFailed = TRUE])

XhrGetCached(t) ==
    /\ req[t].kind = "xhr"
    /\ req[t].pc = "get"
    /\ AtHead(t, "get")
    /\ idb' = Tail(idb)
    /\ \/ LET c == getCached(req[t].url)
          IN  Step(t, IF c # <<>> THEN xhrHit(req[t], c[1]) ELSE xhrMiss(req[t]))
       \/ Step(t, xhrGetRejected(req[t]))
    /\ UNCHANGED <<store, environment>>

\* The setTimeout callback of a hit: readystatechange and load are dispatched.
XhrDispatch(t) ==
    /\ req[t].events = "scheduled"
    /\ req' = [req EXCEPT ![t].events = "dispatched"]
    /\ UNCHANGED <<store, idb, last, environment>>

\* The native request completes.  The wrapper does nothing more.
RealSendDone(t) ==
    /\ req[t].kind = "xhr"
    /\ req[t].pc = "real"
    /\ \E o \in RealOutcomes(ver) : Step(t, Returned(req[t], o))
    /\ UNCHANGED <<store, idb, environment>>

(***************************************************************************)
(* Interception Adapter: fetch.                                            *)
(***************************************************************************)
\* unsafeWindow.fetch(resource, init), up to its first await.
fetchStart(resource, init) ==
    LET url == getUrlString(resource)
        r == [IdleReq EXCEPT !.kind = "fetch", !.url = url,
                             !.method = EffectiveMethod(resource, init),
                             !.args = [resource |-> resource, init |-> init]]
    IN  IF ~Truthy(url) THEN originalFetch(r)
        ELSE IF FetchEligible(init, url) THEN [r EXCEPT !.pc = "get", !.elig = TRUE]
        ELSE originalFetch(r)

FetchCall(t, resource, init) ==
    /\ CanStart(t)
    /\ Step(t, fetchStart(resource, init))
    /\ idb' = Issue(idb, t, fetchStart(resource, init))
    /\ UNCHANGED <<store, environment>>

\* fetchHit awaiting the revalidation it starts: the Response is built only
\* after updateCacheInBackground has ended.
MutFetchHitAwaits(r, cached) ==
    IF shouldUpdate(cached)
    THEN [MaybeRevalidate(r, cached) EXCEPT !.pc = "await"]
    ELSE [MaybeRevalidate(r, cached) EXCEPT
             !.pc = "done",
             !.result = [via |-> "cache", status |-> 200, bytes |-> cached.data.buffer]]

\* getCached resolved with an entry: the Response built from a copy of its bytes.
fetchHit(r, cached) ==
    [MaybeRevalidate(r, cached) EXCEPT
        !.pc = "done",
        !.result = [via |-> "cache", status |-> 200, bytes |-> cached.data.buffer]]

\* getCached resolved with undefined: gmFetch(url, init).
fetchMiss(r) == [r EXCEPT !.pc = "gm", !.gm = @ + 1, !.gmAt = ver]

\* fetchGetRejected without the outer catch: the rejection reaches the caller.
MutFetchGetRejected(r) ==
    [r EXCEPT !.getFailed = TRUE, !.pc = "done",
              !.result = [via |-> "error", status |-> 0, bytes |-> <<>>]]

\* getCached rejected: the outer catch falls back to the real fetch.
fetchGetRejected(r) == originalFetch([r EXCEPT !.getFailed = TRUE])

FetchGetCached(t) ==
    /\ req[t].kind = "fetch"
    /\ req[t].pc = "get"
    /\ AtHead(t, "get")
    /\ idb' = Tail(idb)
    /\ \/ LET c == getCached(req[t].url)
          IN  Step(t, IF c # <<>> THEN fetchHit(req[t], c[1]) ELSE fetchMiss(req[t]))
       \/ Step(t, fetchGetRejected(req[t]))
    /\ UNCHANGED <<store, environment>>

\* gmFetch resolved.  ok: the entry goes to saveToCache; otherwise the gmFetch
\* response object itself is returned.
fetchOnResponse(r, resp) ==
    IF resp.ok
    THEN [r EXCEPT !.pc = "save", !.resp = resp,
                   !.pending = << cacheEntry(readResponseData(resp.body), resp.etag) >>]
    ELSE [r EXCEPT !.pc = "done", !.resp = resp, !.fail = "gmstatus",
                   !.result = [via |-> "gm", status |-> resp.status, bytes |-> resp.body]]

\* gmFetch rejected: the inner catch calls the real fetch.
fetchOnError(r) == originalFetch([r EXCEPT !.fail = "gmerr"])

FetchGmDone(t) ==
    /\ req[t].kind = "fetch"
    /\ req[t].pc = "gm"
    /\ \E v \in AnswerVersions(req[t]) : \E raw \in GmOutcomes(v, Null) :
         LET r == IF raw.type = "error" THEN fetchOnError(Answered(req[t]))
                  ELSE fetchOnResponse(Answered(req[t]), gmResponse(raw))
         IN  /\ Step(t, r)
             /\ idb' = Issue(idb, t, r)
    /\ UNCHANGED <<store, environment>>

\* The statuses for which the Response constructor refuses a body (the null
\* body statuses of the Fetch standard): it throws a TypeError.
NullBodyStatuses == {101, 103, 204, 205, 304}

\* saveToCache resolved: new Response(buffer, {status, headers}).  buffer is
\* never null, so the constructor throws for a null body status and the inner
\* catch calls the real fetch.
fetchSaved(r) ==
    IF r.resp.status \in NullBodyStatuses
    THEN originalFetch([r EXCEPT !.fail = "response"])
    ELSE [r EXCEPT !.pc = "done",
                   !.result = [via |-> "fetched", status |-> r.resp.status,
                               bytes |-> r.resp.body]]

\* saveToCache rejected: the inner catch calls the real fetch.
fetchSaveFailed(r) == originalFetch([r EXCEPT !.fail = "puterr"])

FetchSaveDone(t) ==
    /\ req[t].kind = "fetch"
    /\ req[t].pc = "save"
    /\ AtHead(t, "put")
    /\ idb' = Tail(idb)
    /\ \/ /\ store' = put(req[t].url, req[t].pending[1])
          /\ Step(t, fetchSaved(req[t]))
       \/ /\ store' = store
          /\ Step(t, fetchSaveFailed(req[t]))
    /\ UNCHANGED environment

RealFetchDone(t) ==
    /\ req[t].kind = "fetch"
    /\ req[t].pc = "real"
    /\ \E o \in RealOutcomes(ver) : Step(t, Returned(req[t], o))
    /\ UNCHANGED <<store, idb, environment>>

(***************************************************************************)
(* Warm-up: cacheResource(url).                                            *)
(***************************************************************************)
\* warmStart without the classifier: every non-empty URL is looked up.
MutWarmStartAny(url) ==
    LET r == [IdleReq EXCEPT !.kind = "warm", !.url = url]
    IN  IF ~Truthy(url) THEN [r EXCEPT !.pc = "done"]
        ELSE [r EXCEPT !.pc = "get", !.elig = TRUE]

warmStart(url) ==
    LET r == [IdleReq EXCEPT !.kind = "warm", !.url = url]
    IN  IF ~Truthy(url) \/ ~isStaticResource(url) THEN [r EXCEPT !.pc = "done"]
        ELSE [r EXCEPT !.pc = "get", !.elig = TRUE]

CacheResource(t, url) ==
    /\ CanStart(t)
    /\ Step(t, warmStart(url))
    /\ idb' = Issue(idb, t, warmStart(url))
    /\ UNCHANGED <<store, environment>>

warmHit(r, cached) == [MaybeRevalidate(r, cached) EXCEPT !.pc = "done"]

warmMiss(r) == [r EXCEPT !.pc = "gm", !.gm = @ + 1, !.gmAt = ver]

warmGetRejected(r) == [r EXCEPT !.pc = "done", !.getFailed = TRUE]

WarmGetCached(t) ==
    /\ req[t].kind = "warm"
    /\ req[t].pc = "get"
    /\ AtHead(t, "get")
    /\ idb' = Tail(idb)
    /\ \/ LET c == getCached(req[t].url)
          IN  Step(t, IF c # <<>> THEN warmHit(req[t], c[1]) ELSE warmMiss(req[t]))
       \/ Step(t, warmGetRejected(req[t]))
    /\ UNCHANGED <<store, environment>>

\* warmOnResponse without the test of response.ok.
MutWarmStoresAnyStatus(r, resp) ==
    [r EXCEPT !.pc = "save", !.resp = resp,
              !.pending = << cacheEntry(readResponseData(resp.body), resp.etag) >>]

warmOnResponse(r, resp) ==
    IF resp.ok
    THEN [r EXCEPT !.pc = "save", !.resp = resp,
                   !.pending = << cacheEntry(readResponseData(resp.body), resp.etag) >>]
    ELSE [r EXCEPT !.pc = "done", !.resp = resp, !.fail = "gmstatus"]

warmOnError(r) == [r EXCEPT !.pc = "done", !.fail = "gmerr"]

WarmGmDone(t) ==
    /\ req[t].kind = "warm"
    /\ req[t].pc = "gm"
    /\ \E v \in AnswerVersions(req[t]) : \E raw \in GmOutcomes(v, Null) :
         LET r == IF raw.type = "error" THEN warmOnError(Answered(req[t]))
                  ELSE warmOnResponse(Answered(req[t]), gmResponse(raw))
         IN  /\ Step(t, r)
             /\ idb' = Issue(idb, t, r)
    /\ UNCHANGED <<store, environment>>

warmSaved(r) == [r EXCEPT !.pc = "done"]

warmSaveFailed(r) == [r EXCEPT !.pc = "done", !.fail = "puterr"]

WarmSaveDone(t) ==
    /\ req[t].kind = "warm"
    /\ req[t].pc = "save"
    /\ AtHead(t, "put")
    /\ idb' = Tail(idb)
    /\ \/ /\ store' = put(req[t].url, req[t].pending[1])
          /\ Step(t, warmSaved(req[t]))
       \/ /\ store' = store
          /\ Step(t, warmSaveFailed(req[t]))
    /\ UNCHANGED environment

(***************************************************************************)
(* Environment.                                                            *)
(***************************************************************************)
\* The instants the model observes: the start, CACHE_MAX_AGE later, and then
\* millisecond by millisecond.
TickSize(k) == IF k = 0 THEN CACHE_MAX_AGE ELSE 1

Tick ==
    /\ ticks < MaxTicks
    /\ now' = now + TickSize(ticks)
    /\ ticks' = ticks + 1
    /\ UNCHANGED <<store, idb, req, last, ver>>

\* The origin publishes a new version of its resources.
OriginUpdate ==
    /\ ver < MaxVer
    /\ ver' = ver + 1
    /\ UNCHANGED <<store, idb, req, last, now, ticks>>

Next ==
    \/ \E t \in Ids, c \in XhrCalls : XhrOpen(t, c.method, c.url)
    \/ \E t \in Ids : XhrSend(t)
    \/ \E t \in Ids : XhrGetCached(t)
    \/ \E t \in Ids : XhrDispatch(t)
    \/ \E t \in Ids : RealSendDone(t)
    \/ \E t \in Ids, c \in FetchCalls : FetchCall(t, c.resource, c.init)
    \/ \E t \in Ids : FetchGetCached(t)
    \/ \E t \in Ids : FetchGmDone(t)
    \/ \E t \in Ids : FetchSaveDone(t)
    \/ \E t \in Ids : RealFetchDone(t)
    \/ \E t \in Ids, url \in WarmUrls : CacheResource(t, url)
    \/ \E t \in Ids : WarmGetCached(t)
    \/ \E t \in Ids : WarmGmDone(t)
    \/ \E t \in Ids : WarmSaveDone(t)
    \/ \E t \in Ids : RevalGmDone(t)
    \/ \E t \in Ids : RevalSaveDone(t)
    \/ Tick
    \/ OriginUpdate

Spec == Init /\ [][Next]_vars

\* IndexedDB requests, gmFetch requests, the real send and the real fetch all
\* complete, and a timer callback runs.
SpecCompleting ==
    /\ Spec
    /\ \A t \in Ids :
          /\ WF_vars(XhrGetCached(t)) /\ WF_vars(XhrDispatch(t))
          /\ WF_vars(RealSendDone(t))
          /\ WF_vars(FetchGetCached(t)) /\ WF_vars(FetchGmDone(t))
          /\ WF_vars(FetchSaveDone(t)) /\ WF_vars(RealFetchDone(t))
          /\ WF_vars(WarmGetCached(t)) /\ WF_vars(WarmGmDone(t))
          /\ WF_vars(WarmSaveDone(t))
          /\ WF_vars(RevalGmDone(t)) /\ WF_vars(RevalSaveDone(t))

\* The manual clear of the debug panel.  The page is loaded more than
\* CACHE_MAX_AGE after a previous page load left its entry, and the button is
\* pressed while the requests of the page are under way.
ClearInit ==
    /\ store \in { <<>> } \cup { (AppJs :> OldEntry(e)) : e \in {Null, EtagOf(1)} }
    /\ idb = <<>>
    /\ req = [t \in Ids |-> IdleReq]
    /\ last = IdleReq
    /\ now = CACHE_MAX_AGE + 1
    /\ ticks = 0
    /\ ver = 1

\* clearButton.onclick: store.clear() is requested in a readwrite transaction.
ClearClick ==
    /\ Cardinality({ i \in DOMAIN idb : idb[i].op = "clear" }) < MaxClearsQueued
    /\ idb' = Append(idb, [t |-> 0, op |-> "clear"])
    /\ UNCHANGED <<store, req, last, environment>>

\* ClearDone cancelling the puts that were requested after it.
MutClearDoneCancels ==
    /\ AtHead(0, "clear")
    /\ store' = <<>>
    /\ idb' = SelectSeq(Tail(idb), LAMBDA o : o.op \notin {"put", "rput"})
    /\ UNCHANGED <<req, last, environment>>

\* The clear request completes: the store is empty.
ClearDone ==
    /\ AtHead(0, "clear")
    /\ store' = <<>>
    /\ idb' = Tail(idb)
    /\ UNCHANGED <<req, last, environment>>

ClearNext ==
    \/ \E t \in Ids, c \in XhrCalls : XhrOpen(t, c.method, c.url)
    \/ \E t \in Ids : XhrSend(t)
    \/ \E t \in Ids : XhrGetCached(t)
    \/ \E t \in Ids : XhrDispatch(t)
    \/ \E t \in Ids : RealSendDone(t)
    \/ \E t \in Ids, c \in FetchCalls : FetchCall(t, c.resource, c.init)
    \/ \E t \in Ids : FetchGetCached(t)
    \/ \E t \in Ids : FetchGmDone(t)
    \/ \E t \in Ids : FetchSaveDone(t)
    \/ \E t \in Ids : RealFetchDone(t)
    \/ \E t \in Ids, url \in WarmUrls : CacheResource(t, url)
    \/ \E t \in Ids : WarmGetCached(t)
    \/ \E t \in Ids : WarmGmDone(t)
    \/ \E t \in Ids : WarmSaveDone(t)
    \/ \E t \in Ids : RevalGmDone(t)
    \/ \E t \in Ids : RevalSaveDone(t)
    \/ OriginUpdate
    \/ ClearClick
    \/ ClearDone

SpecClear == ClearInit /\ [][ClearNext]_vars

\* The staleness threshold, millisecond by millisecond: the page is loaded one
\* millisecond before the entry a previous page load left for app.js reaches
\* CACHE_MAX_AGE, and the clock is observed until one millisecond after.
StaleInit ==
    /\ store \in { (AppJs :> OldEntry(e)) : e \in {Null, EtagOf(1)} }
    /\ idb = <<>>
    /\ req = [t \in Ids |-> IdleReq]
    /\ last = IdleReq
    /\ now = CACHE_MAX_AGE - 1
    /\ ticks = 0
    /\ ver = 1

StaleTick ==
    /\ now < CACHE_MAX_AGE + 1
    /\ now' = now + 1
    /\ UNCHANGED <<store, idb, req, last, ticks, ver>>

StaleNext ==
    \/ \E t \in Ids, c \in XhrCalls : XhrOpen(t, c.method, c.url)
    \/ \E t \in Ids : XhrSend(t)
    \/ \E t \in Ids : XhrGetCached(t)
    \/ \E t \in Ids : XhrDispatch(t)
    \/ \E t \in Ids : RealSendDone(t)
    \/ \E t \in Ids, c \in FetchCalls : FetchCall(t, c.resource, c.init)
    \/ \E t \in Ids : FetchGetCached(t)
    \/ \E t \in Ids : FetchGmDone(t)
    \/ \E t \in Ids : FetchSaveDone(t)
    \/ \E t \in Ids : RealFetchDone(t)
    \/ \E t \in Ids, url \in WarmUrls : CacheResource(t, url)
    \/ \E t \in Ids : WarmGetCached(t)
    \/ \E t \in Ids : WarmGmDone(t)
    \/ \E t \in Ids : WarmSaveDone(t)
    \/ \E t \in Ids : RevalGmDone(t)
    \/ \E t \in Ids : RevalSaveDone(t)
    \/ StaleTick

SpecStale == StaleInit /\ [][StaleNext]_vars

\* The event loop runs the callback a hit of the XHR adapter handed to
\* setTimeout.  Nothing is assumed of IndexedDB or the network.
SpecTimers == Spec /\ \A t \in Ids : WF_vars(XhrDispatch(t))

(***************************************************************************)
(* Properties.                                                             *)
(***************************************************************************)
Adapters == {"xhr", "fetch"}

IsGET(method) == toUpperCase(method) = GET

\* The step completes the getCached of adapter request t, and getCached
\* resolved.
LookupResolves(t) ==
    /\ req[t].kind \in Adapters
    /\ req[t].pc = "get"
    /\ req'[t].pc # "get"
    /\ ~req'[t].getFailed
    /\ ~last'.getFailed

\* C1.  Cache hit bypasses network: when the store holds a fresh entry for the
\* URL of an eligible GET and the lookup resolves, the request returns in that
\* step, through either adapter, with status 200 and the stored bytes; no
\* gmFetch call and no real send / real fetch was made for it, and no
\* revalidation is started.
C1_CacheHitBypassesNetwork ==
    [][ \A t \in Ids :
          ( /\ LookupResolves(t)
            /\ IsGET(req[t].method)
            /\ req[t].url \in DOMAIN store
            /\ now - store[req[t].url].timestamp <= CACHE_MAX_AGE )
          => ( /\ req'[t].pc = "done"
               /\ last'.kind = req[t].kind
               /\ last'.result = [via |-> "cache", status |-> 200,
                                  bytes |-> store[req[t].url].data.buffer]
               /\ last'.gm = 0
               /\ last'.real = 0
               /\ req'[t].rev.pc = "none" ) ]_vars

\* C1 witness: an XHR request was served from a fresh entry (its events are
\* scheduled, no revalidation) and a fetch call has just been served from one.
C1_Witness ==
    /\ \E t \in Ids : /\ req[t].kind = "xhr"
                      /\ req[t].events # "none"
                      /\ req[t].rev.pc = "none"
    /\ last.kind = "fetch"
    /\ last.result.via = "cache"
    /\ last.rev.pc = "none"
    /\ last.gm = 0
    /\ last.real = 0

\* C2 (as claimed).  Non-GET and non-static bypass: a request that has returned
\* and whose method is not GET, or whose URL is not a static resource, never
\* took the cache path, was not served from the store, made no gmFetch call
\* (so wrote nothing), and got its response from the one real call.
C2_NonGetNonStaticBypass ==
    ( /\ last.kind \in Adapters
      /\ ~IsGET(last.method) \/ ~isStaticResource(last.url) )
    => ( /\ ~last.elig
         /\ last.result.via = "real"
         /\ last.gm = 0
         /\ last.real = 1 )

\* The method argument the adapter is given: the method of open(), or
\* init.method of fetch (absent without init or without init.method).
MethodArgEligible(r) ==
    IF r.kind = "fetch"
    THEN \/ ~r.args.init.present
         \/ ~r.args.init.hasMethod
         \/ IsGET(r.args.init.method)
    ELSE IsGET(r.method)

\* C3 (as claimed).  Method eligibility: a request for a static URL takes the
\* cache path iff its method argument is absent or is GET in any letter case.
C3_MethodEligibility ==
    ( /\ last.kind \in Adapters
      /\ isStaticResource(last.url) )
    => ( last.elig <=> MethodArgEligible(last) )

\* C4.  Fault isolation: a request whose getCached rejected has called the real
\* implementation exactly once (fetch: with the original arguments), has made
\* no gmFetch call, and when it has returned the caller has that call's outcome.
FaultIsolated(r) ==
    ( r.kind \in Adapters /\ r.getFailed )
    => ( /\ r.real = 1
         /\ r.gm = 0
         /\ r.kind = "fetch" => r.realArgs = << r.args >>
         /\ r.pc \in {"real", "done"}
         /\ r.pc = "done" => r.result.via = "real" )

C4_FaultIsolation ==
    /\ FaultIsolated(last)
    /\ \A t \in Ids : FaultIsolated(req[t])

\* C4 witness: a fetch call whose lookup failed has returned the real fetch's
\* response, and an XHR request whose lookup failed is in its real send.
C4_Witness ==
    /\ last.kind = "fetch"
    /\ last.getFailed
    /\ last.result = [via |-> "real", status |-> 200, bytes |-> Body(ver)]
    /\ \E t \in Ids : /\ req[t].kind = "xhr"
                      /\ req[t].getFailed
                      /\ req[t].pc = "real"

\* C5 (as claimed).  Fetch miss-path fallback: a fetch call whose cold fetch
\* failed in any way returns what the real fetch, called once with the original
\* arguments, returned.
C5_FetchMissFallback ==
    ( last.kind = "fetch" /\ last.fail # "none" )
    => ( /\ last.result.via = "real"
         /\ last.real = 1
         /\ last.realArgs = << last.args >> )

\* No request waits for IndexedDB or the network, and no revalidation runs.
Quiescent ==
    /\ idb = <<>>
    /\ \A t \in Ids : /\ req[t].pc \in {"idle", "done"}
                      /\ ~RevActive(req[t])

\* C6 (as claimed).  XHR miss populates the cache: once an eligible XHR GET
\* that missed the store has completed successfully through the real send and
\* nothing is in progress any more, the store holds an entry for its URL.
C6_XhrMissPopulates ==
    ( /\ last.kind = "xhr"
      /\ last.elig
      /\ ~last.getFailed
      /\ last.cached = <<>>
      /\ last.result.via = "real"
      /\ last.result.status = 200
      /\ Quiescent )
    => last.url \in DOMAIN store

\* The step completes the saveToCache of fetch call t, and the put succeeded.
FetchSaveSucceeds(t) ==
    /\ req[t].kind = "fetch"
    /\ req[t].pc = "save"
    /\ req'[t].pc # "save"
    /\ req'[t].fail # "puterr"

\* The entry made of a response: its bytes, their decoding, the validator the
\* origin sent, and some timestamp.
EntryOf(entry, resp) ==
    /\ entry.data.buffer = resp.body
    /\ entry.data.text = TextDecode(resp.body)
    /\ entry.etag = resp.sent

\* C7 (as claimed).  Fetch miss populates the cache: a fetch call that missed
\* the store, got a 2xx response from gmFetch and did not fail to write it
\* does not call the real fetch; it returns a response with that status, built
\* from the fetched bytes.
FetchedAndServed(r) ==
    ( /\ r.kind = "fetch"
      /\ gmOk(r.resp.status)
      /\ r.fail # "puterr" )
    => ( /\ r.pc \in {"save", "done"}
         /\ r.real = 0
         /\ r.pc = "done" => /\ r.result.via = "fetched"
                              /\ r.result.status = r.resp.status )

C7_FetchMissPopulates ==
    /\ FetchedAndServed(last)
    /\ \A t \in Ids : FetchedAndServed(req[t])

\* C7, for the statuses that may carry a body.  A fetch call that missed the
\* store goes to saveToCache iff gmFetch answered 2xx, with an entry of the
\* fetched bytes and the response's etag; when the put succeeds that entry is
\* what get(url) returns, and the call returns in that step a response with the
\* original status and those bytes, unless the status is a null body status
\* (204, 205): then the real fetch is called with the original arguments.
C7_FetchMissPopulatesWithBody ==
    [][ \A t \in Ids :
          /\ ( req[t].kind = "fetch" /\ req[t].pc = "gm" /\ req'[t].pc # "gm" )
             => /\ req'[t].pc = "save"
                   => /\ gmOk(req'[t].resp.status)
                      /\ EntryOf(req'[t].pending[1], req'[t].resp)
                /\ req'[t].pc = "done" => ~gmOk(last'.resp.status)
          /\ FetchSaveSucceeds(t)
             => /\ req[t].url \in DOMAIN store'
                /\ store'[req[t].url] = req[t].pending[1]
                /\ EntryOf(store'[req[t].url], req[t].resp)
                /\ IF req[t].resp.status \in NullBodyStatuses
                   THEN /\ req'[t].pc = "real"
                        /\ req'[t].realArgs = << req[t].args >>
                   ELSE /\ req'[t].pc = "done"
                        /\ last'.result = [via |-> "fetched",
                                           status |-> req[t].resp.status,
                                           bytes |-> req[t].resp.body] ]_vars

\* A fetch call has returned a fetched 200 response and the store holds its
\* bytes with an etag.
C7_WithBodyWitness ==
    /\ last.kind = "fetch"
    /\ last.result.via = "fetched"
    /\ last.result.status = 200
    /\ last.url \in DOMAIN store
    /\ store[last.url].data.buffer = last.result.bytes
    /\ store[last.url].etag # Null

\* The step completes the saveToCache of the revalidation of t, and the put
\* succeeded.
RevalSaveSucceeds(t) ==
    /\ req[t].rev.pc = "save"
    /\ req'[t].rev.pc = "done"
    /\ req'[t].rev.out # "puterr"

\* C8.  304 preserves payload: when the put of a revalidation answered 304
\* succeeds, the entry stored for the URL has the payload and the etag of the
\* entry that was revalidated, and a strictly greater timestamp.
C8_NotModifiedPreservesPayload ==
    [][ \A t \in Ids :
          ( RevalSaveSucceeds(t) /\ req[t].rev.resp.status = 304 )
          => ( /\ req[t].url \in DOMAIN store'
               /\ store'[req[t].url].data = req[t].cached[1].data
               /\ store'[req[t].url].etag = req[t].cached[1].etag
               /\ store'[req[t].url].timestamp > req[t].cached[1].timestamp ) ]_vars

\* C8 witness: a revalidation ended with a 304 and the entry of app.js has its
\* old payload and etag and a later timestamp.
C8_Witness ==
    /\ \E t \in Ids : req[t].rev.out = "304"
    /\ AppJs \in DOMAIN store
    /\ store[AppJs].data = OldEntry(Null).data
    /\ store[AppJs].etag = EtagOf(1)
    /\ store[AppJs].timestamp > 0

\* C9.  200 replaces payload: when the put of a revalidation answered 2xx
\* succeeds, the entry stored for the URL is made of the new body and the new
\* etag (null if the origin sent none) and nothing else, with a timestamp
\* greater than the old one.
C9_OkReplacesPayload ==
    [][ \A t \in Ids :
          ( RevalSaveSucceeds(t) /\ gmOk(req[t].rev.resp.status) )
          => ( /\ req[t].url \in DOMAIN store'
               /\ DOMAIN store'[req[t].url] = {"data", "etag", "timestamp"}
               /\ DOMAIN store'[req[t].url].data = {"buffer", "text"}
               /\ EntryOf(store'[req[t].url], req[t].rev.resp)
               /\ store'[req[t].url].timestamp > req[t].cached[1].timestamp ) ]_vars

\* C9 witness: a revalidation ended with a 200 and the entry of app.js, which
\* held version 1, holds version 2 and its etag.
C9_Witness ==
    /\ \E t \in Ids : req[t].rev.out = "200"
    /\ AppJs \in DOMAIN store
    /\ store[AppJs].data.buffer = Body(2)
    /\ store[AppJs].etag = EtagOf(2)
    /\ store[AppJs].timestamp > 0

\* What of request t the caller can observe.
CallerView(r) == <<r.pc, r.result, r.events, r.real>>

\* C10.  Revalidation failure is harmless: a revalidation hands an entry to the
\* store only after a 304 or a 2xx; when it ends at the response (another
\* status, or a transport failure) or because the put failed, the store is
\* unchanged, and the request that started it and the response last returned
\* are unchanged.
C10_RevalidationFailureHarmless ==
    [][ \A t \in Ids :
          /\ ( req[t].rev.pc = "gm" /\ req'[t].rev.pc = "save" )
             => ( \/ req'[t].rev.resp.status = 304
                  \/ req'[t].rev.resp.status \in 200..299 )
          /\ ( \/ req[t].rev.pc = "gm" /\ req'[t].rev.pc = "done"
               \/ req[t].rev.pc = "save" /\ req'[t].rev.out = "puterr" )
             => ( /\ store' = store
                  /\ last' = last
                  /\ CallerView(req'[t]) = CallerView(req[t]) ) ]_vars

\* C10 witness: a revalidation ended at a response that was neither 304 nor
\* 2xx, another ended because its put failed, and app.js still has its entry.
C10_Witness ==
    /\ \E t \in Ids : req[t].rev.out = "ignored"
    /\ \E t \in Ids : req[t].rev.out = "puterr"
    /\ AppJs \in DOMAIN store
    /\ store[AppJs].timestamp = 0

\* C11.  Revalidation is fire-and-forget: in the step where the lookup of an
\* adapter request resolves with a stale entry, the request returns with status
\* 200 and the stored bytes (XHR: its events are scheduled) while the gmFetch of
\* the revalidation it started is still outstanding; and the scheduled events
\* of a hit are dispatched whether or not that gmFetch ever completes.
C11_FireAndForget ==
    /\ [][ \A t \in Ids :
              ( /\ LookupResolves(t)
                /\ req[t].url \in DOMAIN store
                /\ now - store[req[t].url].timestamp > CACHE_MAX_AGE )
              => ( /\ req'[t].pc = "done"
                   /\ last'.result = [via |-> "cache", status |-> 200,
                                      bytes |-> store[req[t].url].data.buffer]
                   /\ req[t].kind = "xhr" => req'[t].events = "scheduled"
                   /\ req'[t].rev.pc = "gm"
                   /\ last'.rev.pc = "gm" ) ]_vars
    /\ \A t \in Ids :
          ( req[t].events = "scheduled" /\ req[t].rev.pc = "gm" )
             ~> ( req[t].events = "dispatched" )

\* C11 witness: the events of an XHR hit have been dispatched and a fetch call
\* has returned the cached bytes, while the gmFetch of both their revalidations
\* is outstanding.
C11_Witness ==
    /\ \E t \in Ids : /\ req[t].kind = "xhr"
                      /\ req[t].events = "dispatched"
                      /\ req[t].rev.pc = "gm"
    /\ \E t \in Ids : /\ req[t].kind = "fetch"
                      /\ req[t].pc = "done"
                      /\ req[t].rev.pc = "gm"
    /\ last.kind = "fetch"
    /\ last.result.via = "cache"

\* The step completes the saveToCache of warm-up call t, and the put succeeded.
WarmSaveSucceeds(t) ==
    /\ req[t].kind = "warm"
    /\ req[t].pc = "save"
    /\ req'[t].pc = "done"
    /\ last'.fail # "puterr"

\* The step completes a put of t successfully.
PutSucceeds(t) ==
    FetchSaveSucceeds(t) \/ WarmSaveSucceeds(t) \/ RevalSaveSucceeds(t)

\* The entry t handed to store.put.
PutEntry(t) ==
    IF req[t].rev.pc = "save" THEN req[t].rev.pending[1] ELSE req[t].pending[1]

\* C12.  At-most-one-entry invariant: the store maps each URL to one entry; a
\* step in which a put completes leaves get(url) returning the entry of that
\* put, whatever the key held before, and every other key as it was; a step
\* in which no put completes leaves the store as it was.  So get(url) is the
\* entry of the last completed put for url.
C12_AtMostOneEntry ==
    [][ LET puts == { t \in Ids : PutSucceeds(t) }
        IN  IF puts = {} THEN store' = store
            ELSE \E t \in puts :
                   /\ DOMAIN store' = DOMAIN store \cup {req[t].url}
                   /\ store'[req[t].url] = PutEntry(t)
                   /\ \A u \in DOMAIN store : u # req[t].url => store'[u] = store[u] ]_vars

\* C12 witness: two revalidations of the old entry of app.js have each
\* completed a put, one after a 304 and one after a 200, nothing is in
\* progress, and app.js has one entry, written after the start.
C12_Witness ==
    /\ \E t1, t2 \in Ids : /\ req[t1].rev.out = "304"
                           /\ req[t2].rev.out = "200"
    /\ Quiescent
    /\ DOMAIN store = {AppJs}
    /\ store[AppJs].timestamp > 0

\* The step completes the getCached of t, of any kind, with an entry.
LookupHits(t) ==
    /\ req[t].pc = "get"
    /\ req'[t].pc # "get"
    /\ ~req'[t].getFailed
    /\ ~last'.getFailed
    /\ req[t].url \in DOMAIN store

\* C13.  Staleness threshold: shouldUpdate(entry) is true iff the age
\* now - entry.timestamp is at least CACHE_MAX_AGE + 1 = 86 400 001 ms, so it
\* is false at ages CACHE_MAX_AGE - 1 and CACHE_MAX_AGE and true at
\* CACHE_MAX_AGE + 1; and a hit, through either adapter or the warm-up, starts
\* a revalidation iff the entry it found is that old.
C13_StalenessThreshold ==
    /\ CACHE_MAX_AGE = 86400000
    /\ [][ /\ \A u \in DOMAIN store :
                 shouldUpdate(store[u])
                    <=> now - store[u].timestamp \in (CACHE_MAX_AGE + 1)..(2 * CACHE_MAX_AGE)
            /\ \A t \in Ids :
                 LookupHits(t)
                 => ( req'[t].rev.pc = "gm"
                        <=> now - store[req[t].url].timestamp
                               \notin 0..CACHE_MAX_AGE ) ]_vars

\* C13 witness: at age CACHE_MAX_AGE + 1 of the entry of app.js a hit has
\* started a revalidation of it, and a hit at a lesser age (an XHR, its events
\* scheduled) has started none.
C13_Witness ==
    /\ now = CACHE_MAX_AGE + 1
    /\ store[AppJs].timestamp = 0
    /\ \E t \in Ids : /\ req[t].rev.pc = "gm"
                      /\ req[t].cached[1].timestamp = 0
    /\ \E t \in Ids : /\ req[t].kind = "xhr"
                      /\ req[t].events # "none"
                      /\ req[t].rev = NoRev

\* C14.  Conditional revalidation: the request of every revalidation carries
\* If-None-Match iff the entry it revalidates has an etag, and then that etag;
\* a revalidation that goes to the store after a 304 revalidates an entry with
\* an etag, and the origin answered with that validator.  So an entry without
\* etag is revalidated unconditionally and never re-stamped on a 304.
ConditionalIffEtag(r) ==
    RevActive(r)
    => ( /\ r.rev.inm # Null <=> r.cached[1].etag # Null
         /\ r.rev.inm # Null => r.rev.inm = r.cached[1].etag
         /\ ( r.rev.pc = "save" /\ r.rev.resp.status = 304 )
            => ( /\ r.cached[1].etag # Null
                 /\ r.rev.resp.sent = r.cached[1].etag
                 /\ r.rev.pending[1].etag = r.cached[1].etag ) )

C14_ConditionalRevalidation ==
    /\ ConditionalIffEtag(last)
    /\ \A t \in Ids : ConditionalIffEtag(req[t])

\* C14 witness: the entry of app.js had no etag; one revalidation of it has
\* sent its request without If-None-Match, another, sent without it, has been
\* answered 200 and waits for its put.
C14_Witness ==
    \E t1, t2 \in Ids :
       /\ req[t1].rev.pc = "gm"
       /\ req[t1].cached[1].etag = Null
       /\ req[t1].rev.inm = Null
       /\ req[t2].rev.pc = "save"
       /\ req[t2].cached[1].etag = Null
       /\ req[t2].rev.inm = Null
       /\ req[t2].rev.resp.status = 200

\* C15.  The warm-up decision, step by step of a cacheResource(url) call t:
\*  - the call: a URL that is not a static resource makes it return at once,
\*    with no store request and no gmFetch; otherwise it issues one get;
\*  - the get resolves with an entry: it returns, having started one
\*    revalidation iff the entry is stale and no gmFetch otherwise;
\*  - the get resolves with nothing: one gmFetch; the get rejects: it returns;
\*  - gmFetch ends: the entry made of the response goes to the store iff the
\*    status is 2xx, otherwise the call returns and the store is unchanged;
\*  - the put succeeds: the entry is what the store holds for the URL.
\* No step of the call changes another request or warm-up call.
C15_WarmUpDecision ==
    [][ \A t \in Ids :
          /\ ( req[t].kind = "none" /\ req'[t].kind = "warm" )
             => IF req'[t].pc = "done"
                THEN /\ ~isStaticResource(last'.url)
                     /\ last'.gm = 0
                     /\ idb' = idb
                     /\ store' = store
                ELSE /\ isStaticResource(req'[t].url)
                     /\ req'[t].pc = "get"
                     /\ req'[t].gm = 0
                     /\ idb' = Append(idb, [t |-> t, op |-> "get"])
          /\ ( req[t].kind = "warm" /\ LookupHits(t) )
             => /\ req'[t].pc = "done"
                /\ store' = store
                /\ IF now - store[req[t].url].timestamp > CACHE_MAX_AGE
                   THEN req'[t].rev.pc = "gm" /\ last'.gm = 1
                   ELSE req'[t].rev.pc = "none" /\ last'.gm = 0
          /\ ( /\ req[t].kind = "warm"
               /\ req[t].pc = "get"
               /\ req'[t].pc # "get"
               /\ req[t].url \notin DOMAIN store )
             => /\ store' = store
                /\ \/ req'[t].pc = "gm" /\ req'[t].gm = 1
                   \/ req'[t].pc = "done" /\ last'.getFailed /\ last'.gm = 0
          /\ ( req[t].kind = "warm" /\ req[t].pc = "gm" /\ req'[t].pc # "gm" )
             => /\ store' = store
                /\ IF req'[t].pc = "save"
                   THEN /\ gmOk(req'[t].resp.status)
                        /\ EntryOf(req'[t].pending[1], req'[t].resp)
                        /\ req'[t].gm = 1
                   ELSE /\ req'[t].pc = "done"
                        /\ ~gmOk(last'.resp.status)
                        /\ last'.gm = 1
          /\ WarmSaveSucceeds(t)
             => /\ req[t].url \in DOMAIN store'
                /\ store'[req[t].url] = req[t].pending[1]
          /\ ( req[t].kind = "warm" /\ req[t].pc # "done" /\ req'[t] # req[t] )
             => /\ \A o \in Ids \ {t} : req'[o] = req[o]
                /\ req'[t].pc = "done" => req'[t].real = 0 ]_vars

\* C15 witness: one warm-up call found the stale entry of app.js and started
\* its revalidation; another, for LOGO.PNG, missed, fetched it once and has
\* returned with the entry stored.
C15_Witness ==
    /\ \E t \in Ids : /\ req[t].kind = "warm"
                      /\ req[t].rev.pc = "gm"
                      /\ req[t].url = AppJs
    /\ last.kind = "warm"
    /\ last.url = LogoPng
    /\ last.cached = <<>>
    /\ last.gm = 1
    /\ last.resp.status = 200
    /\ last.fail = "none"
    /\ LogoPng \in DOMAIN store

\* The payload and the etag of the entry are those of one response of the
\* origin: the body of some version with the validator of that version or
\* with none, or an empty body with none; and the text is the decoded buffer.
PairOfOneResponse(entry) ==
    /\ entry.data.text = TextDecode(entry.data.buffer)
    /\ \/ entry.data.buffer = <<>> /\ entry.etag = Null
       \/ \E v \in 1..MaxVer : /\ entry.data.buffer = Body(v)
                                /\ entry.etag \in {Null, EtagOf(v)}

\* C16.  No mismatched pair under races: every entry in the store, and every
\* entry handed to store.put by a miss population, a warm-up or a
\* revalidation, has the payload and the etag of one response of the origin.
C16_NoMismatchedPair ==
    /\ \A u \in DOMAIN store : PairOfOneResponse(store[u])
    /\ \A t \in Ids :
          /\ req[t].pending # <<>> => PairOfOneResponse(req[t].pending[1])
          /\ req[t].rev.pending # <<>> => PairOfOneResponse(req[t].rev.pending[1])

\* C16 witness: two revalidations of app.js, racing, have both replaced the
\* entry after a 200; the origin is at version 2 and the entry that was put
\* last is version 1 with the validator of version 1.
C16_Witness ==
    /\ \A t \in Ids : req[t].rev.out = "200"
    /\ Quiescent
    /\ ver = 2
    /\ AppJs \in DOMAIN store
    /\ store[AppJs].data.buffer = Body(1)
    /\ store[AppJs].etag = EtagOf(1)
    /\ store[AppJs].timestamp > 0

\* The origin's version an entry's payload is: Body(v) begins with the digit
\* of v.  0: an empty payload.
VersionOf(entry) ==
    IF entry.data.buffer = <<>> THEN 0 ELSE entry.data.buffer[1] - 48

\* C17 (as claimed).  Cost of a lost update: when writers to one URL race and
\* one of them is a revalidation, the put of the revalidation never replaces
\* the payload the store holds for the URL by the payload of an older version
\* of the origin under a timestamp that makes the entry fresh.
C17_LostUpdateCost ==
    [][ \A t \in Ids :
          ( RevalSaveSucceeds(t) /\ req[t].url \in DOMAIN store )
          => ~ ( /\ VersionOf(store'[req[t].url]) > 0
                 /\ VersionOf(store'[req[t].url]) < VersionOf(store[req[t].url])
                 /\ now - store'[req[t].url].timestamp <= CACHE_MAX_AGE ) ]_vars

\* The terminal state a returned adapter request is in, by what the wrapper
\* did: served the stored entry; stored the fetched response and served it;
\* called the real implementation without having taken the cache path, or
\* after having taken it.  A fetch call that returned the object gmFetch
\* resolved with is in none of them.
TerminalState(r) ==
    IF r.result.via = "cache" THEN "SERVED_FROM_CACHE"
    ELSE IF r.result.via = "fetched" THEN "CACHED_AND_SERVED"
    ELSE IF r.result.via = "real" /\ ~r.elig THEN "INELIGIBLE_PASSTHROUGH"
    ELSE IF r.result.via = "real" /\ r.elig THEN "FALLBACK"
    ELSE "NONE"

\* The network fetch of a request that missed succeeded: a 2xx status, from
\* gmFetch (fetch adapter) or from the real send (XHR adapter).
MissFetchSucceeded(r) ==
    IF r.kind = "fetch" THEN gmOk(r.resp.status) ELSE gmOk(r.result.status)

\* The terminal state the request is to end in, by its method, its URL, the
\* outcome of the lookup and the outcome of the network fetch.
ExpectedTerminalState(r) ==
    IF ~IsGET(r.method) \/ ~isStaticResource(r.url) THEN "INELIGIBLE_PASSTHROUGH"
    ELSE IF r.cached # <<>> THEN "SERVED_FROM_CACHE"
    ELSE IF MissFetchSucceeded(r) THEN "CACHED_AND_SERVED"
    ELSE "FALLBACK"

\* C18 (as claimed).  Per-request state machine: a request that has returned
\* through either adapter, its lookup and its put not having failed, received
\* one response and is in the terminal state its method, URL, lookup outcome
\* and fetch outcome call for.
C18_PerRequestStateMachine ==
    ( /\ last.kind \in Adapters
      /\ ~last.getFailed
      /\ last.fail # "puterr" )
    => ( /\ last.pc = "done"
         /\ last.result.via # "none"
         /\ last.real <= 1
         /\ TerminalState(last) = ExpectedTerminalState(last) )

\* C18, the part that holds whatever the terminal state: a request that has
\* returned through either adapter received one response, from the store, from
\* gmFetch or from one call of the real implementation, never from two of
\* them; and, the operations it waits on completing, every fetch call and
\* every XHR request that was sent returns.
C18_OneResponse ==
    /\ last.kind \in Adapters
       => ( /\ last.pc = "done"
            /\ last.result.via \in {"cache", "fetched", "gm", "real"}
            /\ last.real <= 1
            /\ last.result.via = "real" <=> last.real = 1
            /\ last.result.via = "cache" => last.events # "none" \/ last.kind = "fetch" )
    /\ \A t \in Ids : req[t].events # "none" => req[t].real = 0

C18_Returns ==
    \A t \in Ids :
       ( req[t].kind \in Adapters /\ req[t].pc # "opened" ) ~> ( req[t].pc = "done" )

\* C19.  Only eligible, successful GET results are stored: every key of the
\* store is a URL isStaticResource accepts and its payload is the body of a
\* version of the origin or the empty body of a 204, never that of an error
\* page; an entry on its way to store.put from a fetch miss or a warm-up is
\* made of the body of a 2xx response to the GET gmFetch sent for that URL;
\* one on its way from a revalidation is made of the body of its 2xx
\* response, or is the payload of the revalidated entry after a 304.
C19_OnlyEligibleSuccessfulStored ==
    /\ \A u \in DOMAIN store :
          /\ isStaticResource(u)
          /\ store[u].data.buffer # ErrBody
          /\ store[u].data.buffer \in { Body(v) : v \in 1..MaxVer } \cup { <<>> }
    /\ \A t \in Ids :
          /\ req[t].pending # <<>>
             => /\ isStaticResource(req[t].url)
                /\ gmOk(req[t].resp.status)
                /\ req[t].pending[1].data.buffer = req[t].resp.body
                /\ req[t].kind = "fetch" => gmMethod(req[t].args.init) = GET
          /\ req[t].rev.pending # <<>>
             => /\ isStaticResource(req[t].url)
                /\ \/ /\ req[t].rev.resp.status = 304
                      /\ req[t].rev.pending[1].data = req[t].cached[1].data
                   \/ /\ gmOk(req[t].rev.resp.status)
                      /\ req[t].rev.pending[1].data.buffer = req[t].rev.resp.body

\* C19 witness: a warm-up call for app.js was answered 404 and has returned,
\* app.js has no entry, and LOGO.PNG, fetched with a 200, has one.
C19_Witness ==
    /\ last.kind = "warm"
    /\ last.url = AppJs
    /\ last.resp.status = 404
    /\ AppJs \notin DOMAIN store
    /\ LogoPng \in DOMAIN store
    /\ store[LogoPng].data.buffer = Body(ver)
    /\ Quiescent

\* The step completes a clear.
ClearCompletes ==
    /\ idb # <<>>
    /\ Head(idb).op = "clear"
    /\ Len(idb') < Len(idb)

\* C20.  clear() is not a barrier for in-flight work: the step that completes
\* a clear empties the store and leaves every request, warm-up call and
\* revalidation, and every store request queued behind the clear, as it was;
\* a put that completes afterwards creates the entry of its URL, one entry
\* whose payload and etag are those of one response, beside what the store
\* holds then.
C20_ClearIsNoBarrier ==
    [][ /\ ClearCompletes
           => /\ store' = <<>>
              /\ req' = req
              /\ last' = last
              /\ idb' = Tail(idb)
        /\ \A t \in Ids :
             PutSucceeds(t)
             => /\ DOMAIN store' = DOMAIN store \cup {req[t].url}
                /\ store'[req[t].url] = PutEntry(t)
                /\ PairOfOneResponse(store'[req[t].url])
                /\ \A u \in DOMAIN store : u # req[t].url => store'[u] = store[u] ]_vars

\* C20 witness: the second request, an XHR, was served the entry of app.js;
\* the store was cleared after that, so after both requests were issued; and
\* the put of the first, a warm-up call that had missed LOGO.PNG, has
\* completed since: the store holds the entry of LOGO.PNG and nothing else.
C20_Witness ==
    /\ req[MaxRequests].kind = "xhr"
    /\ req[MaxRequests].events # "none"
    /\ \A t \in Ids : req[t].kind # "none"
    /\ last.kind = "warm"
    /\ last.url = LogoPng
    /\ last.fail = "none"
    /\ DOMAIN store = {LogoPng}
    /\ PairOfOneResponse(store[LogoPng])
    /\ idb = <<>>

=============================================================================
